---------------------------- MODULE Spec2Model ----------------------------
(***************************************************************************)
(* A model of waterfurnace-py's REST facade (src/app.py): the lifecycle of *)
(* the single AWL session (establish_awl_session under backoff, the        *)
(* supervision task awl_reconnection_handler, close_awl_session), the      *)
(* cached gateway read (awl_read_gateway), and the request handlers with   *)
(* the projections they compute from login_data and from a gateway read.   *)
(*                                                                         *)
(* Python values: a str that the code slices or matches (zone-slot keys,   *)
(* telemetry keys) is a sequence of one-character strings; a value that    *)
(* may be a str or None (a zone name, a description, the gwid of a        *)
(* gateway dict) is Text(s) or None;                                       *)
(* any other str is a TLA+ string.  A dict is a sequence of <<key, value>> *)
(* pairs with                                                              *)
(* distinct keys, in insertion order; the gateway and location dicts of    *)
(* login_data, whose keys are fixed names, are records whose DOMAIN is the *)
(* set of keys present.  A call either returns or raises:                  *)
(* [returned |-> v] or [raised |-> "ExceptionName"].                       *)
(***************************************************************************)
EXTENDS Integers, Sequences, FiniteSets, TLC

\* ------------------------------------------------------------------ bounds
\* AWL objects constructed in one run: every connect attempt builds one.
MaxHandles == 3
\* The clock stops ticking here (seconds).
MaxTime == 11
\* Request slots: gateway reads that may be suspended at the same time.
NumSlots == 2
\* Zone slots in a gateway's tstat_names, where login data is enumerated.
MaxSlots == 2
\* Keys in a telemetry payload, where payloads are enumerated.
MaxPayloadKeys == 3

\* --------------------------------------------------------- program constants
\* A cache window one second too long.
TTL_late == 10 + 1
\* @timed_cache(seconds=10)
TTL == 10

\* ------------------------------------------------------------ Python values
\* None: the login_data of a session that never logged in, a null zone name,
\* what dict.get answers for a missing key.
None == [type |-> "NoneType"]
\* The str s, where the value may be None as well.
Text(s) == [type |-> "str", value |-> s]

Return(v) == [returned |-> v]
Raise(e) == [raised |-> e]
Returned(r) == "returned" \in DOMAIN r
Raised(r) == "raised" \in DOMAIN r

\* dict.get(key) on a record-shaped dict: None when the key is absent.
Get(d, key) == IF key \in DOMAIN d THEN d[key] ELSE None

\* The keys of an ordered dict, and membership.
Keys(d) == {d[i][1] : i \in 1..Len(d)}
HasKey(d, k) == \E i \in 1..Len(d) : d[i][1] = k
\* d[k] for a key that is present.
Lookup(d, k) == d[CHOOSE i \in 1..Len(d) : d[i][1] = k][2]
\* d[k] = v: the value is replaced in place, or the pair is appended.
SetItem(d, k, v) ==
    IF HasKey(d, k)
    THEN [i \in 1..Len(d) |-> IF d[i][1] = k THEN <<k, v>> ELSE d[i]]
    ELSE Append(d, <<k, v>>)
\* d.update(e): e's items assigned in e's order.
RECURSIVE Update(_, _)
Update(d, e) ==
    IF e = <<>> THEN d ELSE Update(SetItem(d, Head(e)[1], Head(e)[2]), Tail(e))
\* The dict without key k (the dict left behind by d.pop(k, default)).
RECURSIVE Without(_, _)
Without(d, k) ==
    IF d = <<>> THEN <<>>
    ELSE IF Head(d)[1] = k THEN Without(Tail(d), k)
    ELSE <<Head(d)>> \o Without(Tail(d), k)

\* ------------------------------------------------------------------ strings
Digits == {"0", "1", "2", "3", "4", "5", "6", "7", "8", "9"}
DigitVal(c) ==
    CASE c = "0" -> 0 [] c = "1" -> 1 [] c = "2" -> 2 [] c = "3" -> 3
      [] c = "4" -> 4 [] c = "5" -> 5 [] c = "6" -> 6 [] c = "7" -> 7
      [] c = "8" -> 8 [] c = "9" -> 9
DigitChar(n) ==
    CASE n = 0 -> "0" [] n = 1 -> "1" [] n = 2 -> "2" [] n = 3 -> "3"
      [] n = 4 -> "4" [] n = 5 -> "5" [] n = 6 -> "6" [] n = 7 -> "7"
      [] n = 8 -> "8" [] n = 9 -> "9"

\* The value of a nonempty run of decimal digits.
RECURSIVE DecimalValue(_)
DecimalValue(s) ==
    IF s = <<>> THEN 0
    ELSE 10 * DecimalValue(SubSeq(s, 1, Len(s) - 1)) + DigitVal(s[Len(s)])
AllDigits(s) == Len(s) >= 1 /\ \A i \in 1..Len(s) : s[i] \in Digits

\* The vertical tab, '\x0b'.
VT == ""
\* The whitespace that int() and float() strip: the six ASCII characters.
\* (The others that Python strips are not ASCII, and no TLA+ string holds
\* them.)
Whitespace == {" ", "\t", "\n", VT, "\f", "\r"}
\* s.strip()
RECURSIVE Strip(_)
Strip(s) ==
    IF s = <<>> THEN s
    ELSE IF Head(s) \in Whitespace THEN Strip(Tail(s))
    ELSE IF s[Len(s)] \in Whitespace THEN Strip(SubSeq(s, 1, Len(s) - 1))
    ELSE s
\* Every underscore of s stands between two digits.
Grouped(s) ==
    \A i \in 1..Len(s) :
        s[i] = "_" => /\ 1 < i /\ i < Len(s)
                      /\ s[i - 1] \in Digits /\ s[i + 1] \in Digits
\* s without its underscores.
Ungroup(s) == SelectSeq(s, LAMBDA c : c # "_")

\* An integer literal in base 10: an optional sign, then digits.
ParseInteger(s) ==
    IF AllDigits(s) THEN Return(DecimalValue(s))
    ELSE IF Len(s) >= 2 /\ s[1] \in {"+", "-"} /\ AllDigits(Tail(s))
    THEN Return(IF s[1] = "-" THEN 0 - DecimalValue(Tail(s))
                ELSE DecimalValue(Tail(s)))
    ELSE Raise("ValueError")
\* A stripped int: single underscores between its digits are read over.
ParseGrouped(s) ==
    IF Grouped(s) THEN ParseInteger(Ungroup(s)) ELSE Raise("ValueError")

\* int(s) for a str s, given as its characters: surrounding whitespace, an
\* optional sign, then digits with single underscores between them; anything
\* else raises ValueError.  (Of the digits Python reads, the ASCII ones.)
int(s) == ParseGrouped(Strip(s))

\* The characters of a TLA+ string, as a sequence of one-character strings.
Chars(text) == [i \in 1..Len(text) |-> SubSeq(text, i, i)]
\* The letters that float() reads without regard to case.
Lower(c) ==
    CASE c = "E" -> "e" [] c = "I" -> "i" [] c = "N" -> "n" [] c = "F" -> "f"
      [] c = "T" -> "t" [] c = "Y" -> "y" [] c = "A" -> "a" [] OTHER -> c

\* A float: the double nearest to mant * 10^exp, or an infinity with the sign
\* of mant, or nan.
Finite(mant, exp) == [kind |-> "finite", mant |-> mant, exp |-> exp]
Infinite(sign) == [kind |-> "inf", mant |-> sign, exp |-> 0]
NaN == [kind |-> "nan", mant |-> 0, exp |-> 0]

\* The first index of character c in s, Len(s) + 1 when there is none.
IndexOf(s, c) ==
    IF \A i \in 1..Len(s) : s[i] # c THEN Len(s) + 1
    ELSE CHOOSE i \in 1..Len(s) : s[i] = c /\ \A j \in 1..(i - 1) : s[j] # c

\* The number of decimal digits of a positive integer.
RECURSIVE NumDigits(_)
NumDigits(n) == IF n < 10 THEN 1 ELSE 1 + NumDigits(n \div 10)

\* A float below 2^31 * 2^-1074 (about 1.06e-314) in magnitude, where doubles
\* are coarser than ten-digit decimals: k * 2^-1074, k # 0.
Subnormal(k) == [kind |-> "subnormal", mant |-> k, exp |-> 0 - 1074]

\* Natural numbers of any size, as their limbs in base 10^4 from the units
\* up.  The limbs of n:
RECURSIVE LimbsOf(_)
LimbsOf(n) ==
    IF n < 10000 THEN <<n>> ELSE <<n % 10000>> \o LimbsOf(n \div 10000)
\* Limbs with the carry out of them, and the limbs those make.
Carried(limbs, carry) == [limbs |-> limbs, carry |-> carry]
Join(lower, upper) == Carried(lower.limbs \o upper.limbs, upper.carry)
Finish(r) == r.limbs \o (IF r.carry = 0 THEN <<>> ELSE <<r.carry>>)
\* as * d + carry, for a limb d and one limb or more in as, by halves (so
\* that the evaluation stays shallow).
RECURSIVE MulLimbs(_, _, _)
MulUpper(lower, as, d) == Join(lower, MulLimbs(as, d, lower.carry))
MulLimbs(as, d, carry) ==
    IF Len(as) = 1
    THEN Carried(<<(as[1] * d + carry) % 10000>>, (as[1] * d + carry) \div 10000)
    ELSE MulUpper(MulLimbs(SubSeq(as, 1, Len(as) \div 2), d, carry),
                  SubSeq(as, Len(as) \div 2 + 1, Len(as)), d)
TimesLimb(as, d) == Finish(MulLimbs(as, d, 0))
\* as + bs + carry, for as and bs of one length, by halves.
RECURSIVE AddLimbs(_, _, _)
AddUpper(lower, as, bs) == Join(lower, AddLimbs(as, bs, lower.carry))
AddLimbs(as, bs, carry) ==
    IF Len(as) = 1
    THEN Carried(<<(as[1] + bs[1] + carry) % 10000>>,
                 (as[1] + bs[1] + carry) \div 10000)
    ELSE AddUpper(AddLimbs(SubSeq(as, 1, Len(as) \div 2),
                           SubSeq(bs, 1, Len(as) \div 2), carry),
                  SubSeq(as, Len(as) \div 2 + 1, Len(as)),
                  SubSeq(bs, Len(as) \div 2 + 1, Len(as)))
\* as with zero limbs on top, up to n limbs.
Pad(as, n) == [i \in 1..n |-> IF i <= Len(as) THEN as[i] ELSE 0]
\* as + bs, for one limb or more in either.
PlusPadded(as, bs, n) == Finish(AddLimbs(Pad(as, n), Pad(bs, n), 0))
Plus(as, bs) == PlusPadded(as, bs, IF Len(as) >= Len(bs) THEN Len(as) ELSE Len(bs))
\* as * bs.
RECURSIVE Times(_, _)
Times(as, bs) ==
    IF bs = <<>> THEN <<>>
    ELSE Plus(TimesLimb(as, Head(bs)), <<0>> \o Times(as, Tail(bs)))
\* The decimal digits of limbs, from the units up, without leading zeros.
AllDigitsOf(as) ==
    [i \in 1..(4 * Len(as)) |-> (as[(i - 1) \div 4 + 1] \div 10 ^ ((i - 1) % 4)) % 10]
DigitsOf(as) ==
    SubSeq(AllDigitsOf(as), 1,
           4 * Len(as) - (IF as[Len(as)] >= 1000 THEN 0
                          ELSE IF as[Len(as)] >= 100 THEN 1
                          ELSE IF as[Len(as)] >= 10 THEN 2 ELSE 3))
\* The value of digits that fit an integer.
RECURSIVE ValueOf(_)
ValueOf(ds) == IF ds = <<>> THEN 0 ELSE Head(ds) + 10 * ValueOf(Tail(ds))

\* 2^1074, the number of smallest doubles (2^-1074 each) in 1, as written
\* and as limbs from the units up.
TwoTo1074Written ==
    Chars("202402253307310618352495346718917307049556649764142118") \o
    Chars("356901358027430339567995346891960383701437124495187077") \o
    Chars("864316811911389808737385793476867013399940738509921517") \o
    Chars("424276566361364466907742093216341239767678472745068562") \o
    Chars("007483424692698618103355649159556340810056512358769552") \o
    Chars("333414615230502532186327508646006263307707741093494784")
TwoTo1074 ==
    [i \in 1..(Len(TwoTo1074Written) \div 4) |->
        DecimalValue(SubSeq(TwoTo1074Written,
                            Len(TwoTo1074Written) - 4 * i + 1,
                            Len(TwoTo1074Written) - 4 * i + 4))]

\* The digits fit an integer: their value is at most 2^31 - 1.
FitsInt(ds) ==
    \/ Len(ds) < 10
    \/ Len(ds) = 10 /\ ds[10] < 2
    \/ Len(ds) = 10 /\ ds[10] = 2 /\ ValueOf(SubSeq(ds, 1, 9)) <= 147483647
\* A number of 2^-1074s given as digits past q decimal places (n / 10^q),
\* rounded to the nearest whole number k: the float is k * 2^-1074 when k
\* fits, and the decimal is kept otherwise.  (No such n / 10^q lies halfway
\* between two whole numbers: n would be a multiple of 5^(q-1), and q > 300.)
RoundCount(sign, m, e, n, q, up) ==
    IF q > Len(n) THEN Finite(0, 0)
    ELSE IF ~FitsInt(SubSeq(n, q + 1, Len(n))) THEN Finite(sign * m, e)
    ELSE IF up /\ ValueOf(SubSeq(n, q + 1, Len(n))) = 2147483647
    THEN Finite(sign * m, e)
    ELSE IF ValueOf(SubSeq(n, q + 1, Len(n))) + (IF up THEN 1 ELSE 0) = 0
    THEN Finite(0, 0)
    ELSE Subnormal(sign * (ValueOf(SubSeq(n, q + 1, Len(n)))
                           + (IF up THEN 1 ELSE 0)))
RoundDigits(sign, m, e, n, q) ==
    RoundCount(sign, m, e, n, q, q <= Len(n) /\ n[q] >= 5)
\* The double nearest to sign * m * 10^e where e < 0 and the magnitude is
\* below 1e-313: m * 10^e is m * 2^1074 / 10^(-e) times 2^-1074.
RoundSubnormal(sign, m, e) ==
    RoundDigits(sign, m, e, DigitsOf(Times(TwoTo1074, LimbsOf(m))), 0 - e)

\* The double nearest to sign * m * 10^e, for m > 0, as far as two doubles
\* can be told apart by it: past the largest double (about 1.797693134862e308)
\* it is an infinity; below 1e-313 it is a whole number of 2^-1074s (zero,
\* up to half of one); in between the decimal is kept, since there two
\* decimals of this model (m below 2^31) differ by more than the doubles'
\* spacing.  `top` is the power of ten of m's first digit.
RoundAt(sign, m, e, top) ==
    IF top > 308 THEN Infinite(sign)
    ELSE IF top = 308 /\ m > 1797693134 \div 10 ^ (10 - NumDigits(m))
    THEN Infinite(sign)
    ELSE IF top < 0 - 324 THEN Finite(0, 0)
    ELSE IF top <= 0 - 314 THEN RoundSubnormal(sign, m, e)
    ELSE Finite(sign * m, e)
Round(sign, m, e) ==
    IF m = 0 THEN Finite(0, 0) ELSE RoundAt(sign, m, e, e + NumDigits(m) - 1)
\* The double that a float of this model stands for.
Nearest(f) ==
    IF f.kind # "finite" THEN f
    ELSE IF f.mant < 0 THEN Round(0 - 1, 0 - f.mant, f.exp)
    ELSE Round(1, f.mant, f.exp)

\* Decimal digits `whole`, then `fraction` after the point, times 10^exponent.
ParseDecimal(sign, whole, fraction, exponent) ==
    IF AllDigits(whole \o fraction) /\ Returned(exponent)
    THEN Return(Round(sign, DecimalValue(whole \o fraction),
                      exponent.returned - Len(fraction)))
    ELSE Raise("ValueError")

\* The number before the exponent: digits with at most one point.
ParseNumber(sign, number, exponent) ==
    ParseDecimal(sign,
                 SubSeq(number, 1, IndexOf(number, ".") - 1),
                 SubSeq(number, IndexOf(number, ".") + 1, Len(number)),
                 exponent)

\* An unsigned float in lower case: inf, infinity, nan, or a number with an
\* optional exponent after "e".
ParseUnsigned(sign, body) ==
    IF body \in {<<"i", "n", "f">>, <<"i", "n", "f", "i", "n", "i", "t", "y">>}
    THEN Return(Infinite(sign))
    ELSE IF body = <<"n", "a", "n">> THEN Return(NaN)
    ELSE ParseNumber(sign,
                     SubSeq(body, 1, IndexOf(body, "e") - 1),
                     IF IndexOf(body, "e") > Len(body) THEN Return(0)
                     ELSE ParseInteger(SubSeq(body, IndexOf(body, "e") + 1,
                                              Len(body))))

\* An optional sign, then the unsigned float in any case.
ParseSigned(s) ==
    IF Len(s) >= 1 /\ s[1] \in {"+", "-"}
    THEN ParseUnsigned(IF s[1] = "-" THEN 0 - 1 ELSE 1,
                       [i \in 1..(Len(s) - 1) |-> Lower(s[i + 1])])
    ELSE ParseUnsigned(1, [i \in 1..Len(s) |-> Lower(s[i])])

\* A stripped float: single underscores between its digits are read over.
ParseUngrouped(s) ==
    IF Grouped(s) THEN ParseSigned(Ungroup(s)) ELSE Raise("ValueError")

\* float(s) for a str s, given as its characters: surrounding whitespace, a
\* sign, then inf, infinity or nan in any case, or decimal digits (single
\* underscores between them) with at most one point and an optional exponent;
\* anything else raises ValueError.
ParseFloat(chars) == ParseUngrouped(Strip(chars))

\* float(v) for a configuration value v, told apart by how it is written:
\* an int, a bool, a str (whose text is parsed), a float (which is returned),
\* or anything else, for which float() raises TypeError.
float(v) ==
    LET written == Chars(ToString(v))
    IN  IF written[1] \in Digits \cup {"-"} THEN Return(Finite(v, 0))
        ELSE IF written = Chars("TRUE") THEN Return(Finite(1, 0))
        ELSE IF written = Chars("FALSE") THEN Return(Finite(0, 0))
        ELSE IF written[1] = "\"" THEN ParseFloat(Chars(v))
        ELSE IF written[1] = "[" /\ "kind" \in DOMAIN v THEN Return(Nearest(v))
        ELSE Raise("TypeError")

\* a.mant * 10^d > b.mant, for d >= 0.
ScaledAbove(a, b, d) ==
    IF d > 9 THEN (IF a.mant # 0 THEN a.mant > 0 ELSE 0 > b.mant)
    ELSE a.mant > b.mant \div 10 ^ d
\* a.mant > b.mant * 10^d, for d >= 0.
AboveScaled(a, b, d) ==
    IF d > 9 THEN (IF b.mant # 0 THEN b.mant < 0 ELSE a.mant > 0)
    ELSE 0 - ((0 - a.mant) \div 10 ^ d) > b.mant
\* a > b for two doubles as Nearest gives them.  A finite one that is not
\* zero is larger in magnitude than any subnormal one.
AboveNearest(a, b) ==
    CASE a.kind = "nan" \/ b.kind = "nan" -> FALSE
      [] a.kind # "nan" /\ b.kind = "inf" ->
             b.mant < 0 /\ ~(a.kind = "inf" /\ a.mant < 0)
      [] a.kind = "inf" /\ b.kind \in {"finite", "subnormal"} -> a.mant > 0
      [] a.kind = "subnormal" /\ b.kind = "subnormal" -> a.mant > b.mant
      [] a.kind = "subnormal" /\ b.kind = "finite" ->
             IF b.mant = 0 THEN a.mant > 0 ELSE b.mant < 0
      [] a.kind = "finite" /\ b.kind = "subnormal" ->
             IF a.mant = 0 THEN 0 > b.mant ELSE a.mant > 0
      [] a.kind = "finite" /\ b.kind = "finite" ->
             IF a.exp >= b.exp THEN ScaledAbove(a, b, a.exp - b.exp)
             ELSE AboveScaled(a, b, b.exp - a.exp)
\* a > b for two floats.
Above(a, b) == AboveNearest(Nearest(a), Nearest(b))
\* x > f for a number of seconds x (whole, as the clock of this model counts
\* them, or a float) and a float f.
Exceeds(x, f) ==
    IF Head(Chars(ToString(x))) = "[" THEN Above(x, f) ELSE Above(Finite(x, 0), f)

\* str(n) for a natural number n.
RECURSIVE str(_)
str(n) == IF n < 10 THEN <<DigitChar(n)>> ELSE str(n \div 10) \o <<DigitChar(n % 10)>>

\* s.startswith(p)
StartsWith(s, p) == Len(s) >= Len(p) /\ SubSeq(s, 1, Len(p)) = p
\* s.find(p): the first index (from 1) at which p occurs in s, 0 if none.
Find(s, p) ==
    LET hits == {i \in 1..(Len(s) - Len(p) + 1) : SubSeq(s, i, i + Len(p) - 1) = p}
    IN  IF hits = {} THEN 0 ELSE CHOOSE i \in hits : \A j \in hits : i <= j
\* s.replace(p, '', 1): the first occurrence of p removed.
RemoveFirst(s, p) ==
    LET i == Find(s, p)
    IN  IF i = 0 THEN s ELSE SubSeq(s, 1, i - 1) \o SubSeq(s, i + Len(p), Len(s))

\* -------------------------------------------------------------- HTTP results
\* jsonify(body): a 200 response.
jsonify(body) == [status |-> 200, body |-> body]
\* abort(code)
abort(code) == [status |-> code]
\* An exception that leaves a handler: the framework answers 500.
Unhandled(exc) == [status |-> 500, exception |-> exc]

\* ---------------------------------------------------------- Data projection
\* The dict appended at app.py:186-190.
GatewayRecord(location, gateway) ==
    [location |-> Get(location, "description"),
     gwid |-> gateway["gwid"],
     system_name |-> Get(gateway, "description")]

\* An inner loop that gives up on a location at its first gateway without gwid.
RECURSIVE EnumerateLocationGatewaysAborting(_, _)
EnumerateLocationGatewaysAborting(location, gateways) ==
    IF gateways = <<>> THEN <<>>
    ELSE IF "gwid" \notin DOMAIN Head(gateways) THEN <<>>
    ELSE <<GatewayRecord(location, Head(gateways))>>
         \o EnumerateLocationGatewaysAborting(location, Tail(gateways))

\* The inner loop of awl_enumerate_gateways over one location's gateways:
\* gateway['gwid'] raises KeyError, which is caught, and the loop goes on.
RECURSIVE EnumerateLocationGateways(_, _)
EnumerateLocationGateways(location, gateways) ==
    IF gateways = <<>> THEN <<>>
    ELSE (IF "gwid" \in DOMAIN Head(gateways)
          THEN <<GatewayRecord(location, Head(gateways))>>
          ELSE <<>>)
         \o EnumerateLocationGateways(location, Tail(gateways))

RECURSIVE EnumerateGateways(_)
EnumerateGateways(locations) ==
    IF locations = <<>> THEN <<>>
    ELSE EnumerateLocationGateways(Head(locations), Head(locations)["gateways"])
         \o EnumerateGateways(Tail(locations))

\* awl_enumerate_gateways() on the login_data it reads from the session:
\* None['locations'] raises TypeError.
awl_enumerate_gateways(login_data) ==
    IF login_data = None THEN Raise("TypeError")
    ELSE Return(EnumerateGateways(login_data["locations"]))

\* The dict appended at app.py:205-211, with zoneid already converted.
ZoneRecord(location, gateway, zoneid, zone_name) ==
    [location |-> Get(location, "description"),
     gwid |-> gateway["gwid"],
     system_name |-> Get(gateway, "description"),
     zoneid |-> zoneid,
     zone_name |-> zone_name]

\* One iteration of the loop over tstat_names.items(): nothing for a None name;
\* KeyError (no gwid) and ValueError (int(key[1:])) are caught and the slot is
\* skipped.
EnumerateSlot(location, gateway, key, zone_name) ==
    IF zone_name = None THEN <<>>
    ELSE IF "gwid" \notin DOMAIN gateway THEN <<>>
    ELSE LET zoneid == int(SubSeq(key, 2, Len(key)))
         IN  IF Raised(zoneid) THEN <<>>
             ELSE <<ZoneRecord(location, gateway, zoneid.returned, zone_name)>>

RECURSIVE EnumerateSlots(_, _, _)
EnumerateSlots(location, gateway, slots) ==
    IF slots = <<>> THEN <<>>
    ELSE EnumerateSlot(location, gateway, Head(slots)[1], Head(slots)[2])
         \o EnumerateSlots(location, gateway, Tail(slots))

\* gateway['tstat_names'] is read outside the try: a gateway without it raises
\* KeyError out of the whole enumeration.
RECURSIVE EnumerateLocationZones(_, _)
EnumerateLocationZones(location, gateways) ==
    IF gateways = <<>> THEN Return(<<>>)
    ELSE IF "tstat_names" \notin DOMAIN Head(gateways) THEN Raise("KeyError")
    ELSE LET rest == EnumerateLocationZones(location, Tail(gateways))
         IN  IF Raised(rest) THEN rest
             ELSE Return(EnumerateSlots(location, Head(gateways),
                                        Head(gateways)["tstat_names"])
                         \o rest.returned)

RECURSIVE EnumerateZones(_)
EnumerateZones(locations) ==
    IF locations = <<>> THEN Return(<<>>)
    ELSE LET first == EnumerateLocationZones(Head(locations),
                                             Head(locations)["gateways"])
             rest == EnumerateZones(Tail(locations))
         IN  IF Raised(first) THEN first
             ELSE IF Raised(rest) THEN rest
             ELSE Return(first.returned \o rest.returned)

awl_enumerate_zones(login_data) ==
    IF login_data = None THEN Raise("TypeError")
    ELSE EnumerateZones(login_data["locations"])

\* ---------------------------------------------------- synchronous handlers
\* GET /zones
list_thermostats(login_data) ==
    LET zones == awl_enumerate_zones(login_data)
    IN  IF Raised(zones) THEN Unhandled(zones.raised) ELSE jsonify(zones.returned)

\* GET /gateways[?raw]
list_gateways(login_data, raw) ==
    IF raw THEN jsonify(login_data)
    ELSE LET gateways == awl_enumerate_gateways(login_data)
         IN  IF Raised(gateways) THEN Unhandled(gateways.raised)
             ELSE jsonify(gateways.returned)

\* GET /gateways/<gwid>/zones
list_gateway_zones(login_data, gwid) ==
    IF gwid = "*" THEN list_thermostats(login_data)
    ELSE LET zones == awl_enumerate_zones(login_data)
             match(zone) == zone.gwid = Text(gwid)
         IN  IF Raised(zones) THEN Unhandled(zones.raised)
             ELSE jsonify(SelectSeq(zones.returned, match))

\* The "one record" mutation of view_gateway_zone: the first match is served
\* whenever there is one.
view_gateway_zone_first(login_data, gwid, zoneid) ==
    LET zones == awl_enumerate_zones(login_data)
        match(zone) == zone.gwid = Text(gwid) /\ zone.zoneid = zoneid
    IN  IF Raised(zones) THEN Unhandled(zones.raised)
        ELSE LET gateway_zone == SelectSeq(zones.returned, match)
             IN  IF Len(gateway_zone) = 0 THEN abort(404)
                 ELSE jsonify(gateway_zone[1])

\* GET /gateways/<gwid>/zones/<int:zoneid>
view_gateway_zone(login_data, gwid, zoneid) ==
    LET zones == awl_enumerate_zones(login_data)
        match(zone) == zone.gwid = Text(gwid) /\ zone.zoneid = zoneid
    IN  IF Raised(zones) THEN Unhandled(zones.raised)
        ELSE LET gateway_zone == SelectSeq(zones.returned, match)
             IN  IF Len(gateway_zone) = 0 THEN abort(404)
                 ELSE IF Len(gateway_zone) > 1 THEN abort(500)
                 ELSE jsonify(gateway_zone[1])

\* ------------------------------------------------------------- zone detail
\* f"iz2_z{zoneid}_"
ZonePrefix(zoneid) == <<"i", "z", "2", "_", "z">> \o str(zoneid) \o <<"_">>
\* "activesettings"
ActiveSettings ==
    <<"a", "c", "t", "i", "v", "e", "s", "e", "t", "t", "i", "n", "g", "s">>

\* {key.replace(zone_prefix, '', 1): value for (key, value) in zone_data.items()}
RECURSIVE StripPrefix(_, _, _)
StripPrefix(acc, zone_data, zone_prefix) ==
    IF zone_data = <<>> THEN acc
    ELSE StripPrefix(SetItem(acc, RemoveFirst(Head(zone_data)[1], zone_prefix),
                             Head(zone_data)[2]),
                     Tail(zone_data), zone_prefix)

\* The body of read_zone after the gateway read (app.py:271-295).
read_zone(gateway_data, zoneid) ==
    LET zone_prefix == ZonePrefix(zoneid)
        hasPrefix(item) == StartsWith(item[1], zone_prefix)
        zone_raw_data == SelectSeq(gateway_data, hasPrefix)
        popped_key == zone_prefix \o ActiveSettings
        popped == IF HasKey(zone_raw_data, popped_key)
                  THEN Lookup(zone_raw_data, popped_key) ELSE <<>>
        zone_data == Update(Update(<<>>, popped), Without(zone_raw_data, popped_key))
    IN  jsonify(StripPrefix(<<>>, zone_data, zone_prefix))

\* -------------------------------------------------------------------- state
VARIABLES
    phase,       \* "starting" (before_serving), "serving", "failed" (startup
                 \* raised), "stopped" (after_serving has run)
    config,      \* app.config
    handle,      \* how many AWL objects were constructed; app.awl_connection
                 \* is the latest one (0: not yet assigned)
    conn,        \* that object's session: "none", "new", "open", "closed"
    login_data,  \* app.awl_connection.login_data
    last_good,   \* the login_data delivered by the last successful connect
    task,        \* task[0] runs the before_serving call of
                 \* establish_awl_session; task[k], k >= 1, is the k-th
                 \* awl_reconnection_handler task created
    now,         \* the clock, in seconds
    cache,       \* timed_cache's entries of awl_read_gateway, by gwid
    inflight,    \* per request slot: the gateway read it is suspended in
    last         \* the last response served

vars == <<phase, config, handle, conn, login_data, last_good, task, now,
          cache, inflight, last>>
sessionVars == <<handle, conn, login_data>>

Tasks == 0..MaxHandles
Slots == 1..NumSlots
\* The gwid path segments requested, and the zone ids.
GWIDS == {"g1", "g2"}
ZoneIds == 0..2

\* ------------------------------------------------------------ configuration
\* The keys validated at app.py:71-79, which are always present.
BaseConfig ==
    [WATERFURNACE_USER |-> "user", WATERFURNACE_PASSWORD |-> "password",
     LOG_DIRECTORY |-> "instance"]
\* app.py:51-58: the development/testing default and the production default.
Configs ==
    {BaseConfig @@ [WEBSOCKETS_WARN_AFTER_DISCONNECTED |-> 0],
     BaseConfig @@ [WEBSOCKETS_WARN_AFTER_DISCONNECTED |-> 10]}

\* ------------------------------------------------------------------ backoff
\* backoff.expo with its defaults (base 2, factor 1, no max_value): the wait
\* before the n-th retry, before jitter.
expo(n) == 2 ^ (n - 1)

\* backoff_handler(details): the config lookup raises KeyError, or float()
\* raises TypeError, neither of which except ValueError catches; a ValueError
\* of float() makes max_elapsed 0.0.  Otherwise: whether the critical line is
\* logged.
backoff_handler(cfg, details) ==
    IF "websockets_warn_after_disconnected" \notin DOMAIN cfg
    THEN Raise("KeyError")
    ELSE LET converted == float(cfg["websockets_warn_after_disconnected"])
             max_elapsed == IF Returned(converted) THEN converted.returned
                            ELSE Finite(0, 0)
         IN  IF Raised(converted) /\ converted.raised # "ValueError"
             THEN converted
             ELSE Return(IF Exceeds(details.elapsed, max_elapsed)
                         THEN "critical" ELSE "quiet")

\* backoff_success_handler(details): whether the warning line is logged.
backoff_success_handler(details) ==
    IF details.tries > 1 THEN "warning" ELSE "quiet"

\* ----------------------------------------------------------------- upstream
\* What the upstream may answer a login with, and a gateway read with.
Gateway1 ==
    [gwid |-> Text("g1"), description |-> Text("S1"),
     tstat_names |-> <<<< <<"z", "1">>, Text("Home") >>, << <<"z", "2">>, None >>>>]
Gateway2 ==
    [gwid |-> Text("g2"), tstat_names |-> <<<< <<"z", "1">>, Text("Barn") >>>>]
LoginSnapshots ==
    {[locations |-> <<[description |-> Text("L1"), gateways |-> <<Gateway1>>]>>],
     [locations |-> <<[description |-> Text("L1"), gateways |-> <<Gateway1, Gateway2>>]>>]}

Fan(zoneid) == ZonePrefix(zoneid) \o <<"f", "a", "n">>
Payloads ==
    {<< <<Fan(1), "on">> >>,
     << <<ZonePrefix(1) \o ActiveSettings, << << <<"f", "a", "n">>, "auto" >> >> >>,
        <<Fan(1), "off">> >>}

\* --------------------------------------------------------------------- tasks
\* pc: where the task is suspended; obj: the AWL object it awaits; tries, started
\* and elapsed: backoff's details of the current establish_awl_session call;
\* outcome: how the latest connect() ended ("ok" or the exception raised);
\* exc: the exception that ended the task; logout: how the defensive logout
\* ended; notice: what the last backoff handler logged.  A task that has
\* ended keeps its pc, tries, outcome, exc and notice only.
NoTask == [pc |-> "none", obj |-> 0, tries |-> 0, started |-> 0, elapsed |-> 0,
           outcome |-> "", exc |-> "", logout |-> "", notice |-> ""]
StartupTask == [NoTask EXCEPT !.pc = "start"]
\* The supervision tasks created so far.
Supervisors == {t \in Tasks : t >= 1 /\ task[t].pc # "none"}
Running == phase \in {"starting", "serving", "stopped"}

\* ---------------------------------------------------------------------- Init
Idle == [idle |-> TRUE]
Empty == [empty |-> TRUE]
NoResponse == [op |-> "", args |-> <<>>, upstream |-> FALSE,
               response |-> abort(0)]

Init ==
    /\ phase = "starting"
    /\ config \in Configs
    /\ handle = 0
    /\ conn = "none"
    /\ login_data = None
    /\ last_good = None
    /\ task = [t \in Tasks |-> IF t = 0 THEN StartupTask ELSE NoTask]
    /\ now = 0
    /\ cache = [g \in GWIDS |-> Empty]
    /\ inflight = [s \in Slots |-> Idle]
    /\ last = NoResponse

\* ------------------------------------------------------- session lifecycle
\* backoff.on_exception(backoff.expo, AWLConnectionError, on_backoff=...): what
\* the retry loop does with an exception of the attempt.  Any other exception
\* than AWLConnectionError leaves the loop at once; for AWLConnectionError the
\* on_backoff handler is awaited, and what it raises leaves the loop too.
on_exception(cfg, exc, details) ==
    IF exc # "AWLConnectionError" THEN Raise(exc)
    ELSE backoff_handler(cfg, details)

\* logout() without the except AWLLoginError clause around it.
logout_unguarded(outcome) ==
    IF outcome = "ok" THEN "" ELSE outcome

\* The except AWLConnectionError block of awl_reconnection_handler
\* (app.py:119-126) for an outcome of logout(): the exception that leaves the
\* block, "" when none does.
logout_guarded(outcome) ==
    IF outcome \in {"ok", "AWLLoginError"} THEN "" ELSE outcome

\* One attempt begins: establish_awl_session installs a new AWL object and
\* suspends in connect() (app.py:160-164).  It is entered by before_serving,
\* by awl_reconnection_handler when its sleep(1) is over (app.py:130-132), and
\* by backoff's retry loop when its wait is over.
Attempt(t) ==
    /\ Running
    /\ task[t].pc \in {"start", "sleep", "backoff"}
    /\ handle < MaxHandles
    /\ handle' = handle + 1
    /\ conn' = "new"
    /\ login_data' = None
    /\ task' = [task EXCEPT ![t] =
           IF @.pc = "backoff"
           THEN [@ EXCEPT !.pc = "connect", !.obj = handle + 1, !.outcome = "",
                          !.tries = @ + 1, !.elapsed = now - task[t].started]
           ELSE [@ EXCEPT !.pc = "connect", !.obj = handle + 1, !.outcome = "",
                          !.tries = 1, !.started = now, !.elapsed = 0]]
    /\ UNCHANGED <<phase, config, last_good, now, cache, inflight, last>>

\* connect() returns: the session is open and holds the login data; the
\* supervision task is created (app.py:165) and on_success is notified.
ConnectSucceeds(t, snapshot) ==
    /\ Running
    /\ task[t].pc = "connect"
    /\ conn = "new"
    /\ conn' = "open"
    /\ login_data' = snapshot
    /\ last_good' = snapshot
    /\ task' = [task EXCEPT
           ![t] = [NoTask EXCEPT !.pc = "done", !.tries = task[t].tries,
                                 !.outcome = "ok",
                                 !.notice = backoff_success_handler(
                                     [tries |-> task[t].tries,
                                      elapsed |-> task[t].elapsed])],
           ![Cardinality(Supervisors) + 1] =
               [NoTask EXCEPT !.pc = "wait_closed", !.obj = handle]]
    /\ phase' = IF t = 0 THEN "serving" ELSE phase
    /\ UNCHANGED <<config, handle, now, cache, inflight, last>>

\* An establish_awl_session that creates the supervision task whether or not
\* connect() has succeeded.
ConnectFailsSpawning(t, exc) ==
    /\ Running
    /\ task[t].pc = "connect"
    /\ Cardinality(Supervisors) < MaxHandles
    /\ LET details == [tries |-> task[t].tries, elapsed |-> task[t].elapsed,
                       wait |-> expo(task[t].tries)]
           retry == on_exception(config, exc, details)
       IN  /\ task' = [task EXCEPT
                  ![t] =
                      IF Raised(retry)
                      THEN [NoTask EXCEPT !.pc = "failed", !.tries = task[t].tries,
                                          !.outcome = exc, !.exc = retry.raised]
                      ELSE [@ EXCEPT !.pc = "backoff", !.outcome = exc,
                                     !.notice = retry.returned],
                  ![Cardinality(Supervisors) + 1] =
                      [NoTask EXCEPT !.pc = "wait_closed", !.obj = handle]]
           /\ phase' = IF t = 0 /\ Raised(retry) THEN "failed" ELSE phase
    /\ UNCHANGED <<config, handle, conn, login_data, last_good, now, cache,
                   inflight, last>>

\* connect() raises exc: the retry loop either waits for the next attempt or
\* lets an exception out of establish_awl_session, which ends the task that
\* called it (startup fails when that is the before_serving call).
ConnectFails(t, exc) ==
    /\ Running
    /\ task[t].pc = "connect"
    /\ LET details == [tries |-> task[t].tries, elapsed |-> task[t].elapsed,
                       wait |-> expo(task[t].tries)]
           retry == on_exception(config, exc, details)
       IN  /\ task' = [task EXCEPT ![t] =
                  IF Raised(retry)
                  THEN [NoTask EXCEPT !.pc = "failed", !.tries = task[t].tries,
                                      !.outcome = exc, !.exc = retry.raised]
                  ELSE [@ EXCEPT !.pc = "backoff", !.outcome = exc,
                                 !.notice = retry.returned]]
           /\ phase' = IF t = 0 /\ Raised(retry) THEN "failed" ELSE phase
    /\ UNCHANGED <<config, handle, conn, login_data, last_good, now, cache,
                   inflight, last>>

\* wait_closed() ends for the supervision task (app.py:116-130): it returns,
\* or raises AWLConnectionError and logout() is called, ending in `outcome`;
\* the task then suspends in sleep(1).  Any other exception of wait_closed()
\* leaves the task, with no logout.
WaitClosedEnds(t, how, outcome) ==
    /\ Running
    /\ task[t].pc = "wait_closed"
    /\ task[t].obj = handle
    /\ conn = "closed"
    /\ task' = [task EXCEPT ![t] =
           IF how = "returns" THEN [@ EXCEPT !.pc = "sleep"]
           ELSE IF how # "AWLConnectionError"
           THEN [@ EXCEPT !.pc = "failed", !.exc = how]
           ELSE IF logout_guarded(outcome) = ""
           THEN [@ EXCEPT !.pc = "sleep", !.logout = outcome]
           ELSE [@ EXCEPT !.pc = "failed", !.logout = outcome,
                          !.exc = logout_guarded(outcome)]]
    /\ UNCHANGED <<phase, config, handle, conn, login_data, last_good, now,
                   cache, inflight, last>>

\* The upstream closes the open session.
UpstreamCloses ==
    /\ Running
    /\ conn = "open"
    /\ conn' = "closed"
    /\ UNCHANGED <<phase, config, handle, login_data, last_good, task, now,
                   cache, inflight, last>>

\* after_serving: app.awl_connection.close().
close_awl_session ==
    /\ phase = "serving"
    /\ phase' = "stopped"
    /\ conn' = "closed"
    /\ UNCHANGED <<config, handle, login_data, last_good, task, now, cache,
                   inflight, last>>

\* ---------------------------------------------------------------- requests
Respond(op, args, upstream, response) ==
    last' = [op |-> op, args |-> args, upstream |-> upstream,
             response |-> response]

ListThermostats ==
    /\ phase = "serving"
    /\ Respond("list_thermostats", <<>>, FALSE, list_thermostats(login_data))
    /\ UNCHANGED <<phase, config, handle, conn, login_data, last_good, task,
                   now, cache, inflight>>

ListGateways(raw) ==
    /\ phase = "serving"
    /\ Respond("list_gateways", <<raw>>, FALSE, list_gateways(login_data, raw))
    /\ UNCHANGED <<phase, config, handle, conn, login_data, last_good, task,
                   now, cache, inflight>>

ListGatewayZones(gwid) ==
    /\ phase = "serving"
    /\ Respond("list_gateway_zones", <<gwid>>, FALSE,
               list_gateway_zones(login_data, gwid))
    /\ UNCHANGED <<phase, config, handle, conn, login_data, last_good, task,
                   now, cache, inflight>>

ViewGatewayZone(gwid, zoneid) ==
    /\ phase = "serving"
    /\ Respond("view_gateway_zone", <<gwid, zoneid>>, FALSE,
               view_gateway_zone(login_data, gwid, zoneid))
    /\ UNCHANGED <<phase, config, handle, conn, login_data, last_good, task,
                   now, cache, inflight>>

\* ------------------------------------------------------------- cached read
\* timed_cache: an entry answers a call while now < insertedAt + ttl.
CacheValid(entry, t) == entry # Empty /\ t < entry.insertedAt + TTL
\* A cache that stores whatever the wrapped call ended in, failures included.
CacheStoreAlways(entry, result, t) ==
    [value |-> IF Returned(result) THEN result.returned ELSE <<>>, insertedAt |-> t]
\* timed_cache: the entry after the wrapped call ended in `result` at time t.
CacheStore(entry, result, t) ==
    IF Returned(result) THEN [value |-> result.returned, insertedAt |-> t]
    ELSE entry
\* AWL.read(gwid) on a session: the payload, or AWLConnectionError when the
\* session is not connected (when the read was called, or by the time it ends).
awl_read(connected, payload) ==
    IF connected THEN Return(payload) ELSE Raise("AWLConnectionError")

\* What a handler makes of the gateway data it awaited (app.py:237, 271-295).
Render(op, zoneid, gateway_data) ==
    IF op = "read_gateway" THEN jsonify(gateway_data)
    ELSE read_zone(gateway_data, zoneid)

\* A request path that installs a new session itself when it finds the
\* session not connected.
awl_read_gateway_reconnecting(s, op, gwid, zoneid) ==
    /\ phase = "serving"
    /\ inflight[s] = Idle
    /\ IF CacheValid(cache[gwid], now)
       THEN /\ Respond(op, <<gwid, zoneid>>, FALSE,
                       Render(op, zoneid, cache[gwid].value))
            /\ UNCHANGED <<inflight, handle, conn, login_data>>
       ELSE /\ IF conn # "open" /\ handle < MaxHandles
               THEN handle' = handle + 1 /\ conn' = "new" /\ login_data' = None
               ELSE UNCHANGED <<handle, conn, login_data>>
            /\ inflight' = [inflight EXCEPT ![s] =
                   [op |-> op, gwid |-> gwid, zoneid |-> zoneid, obj |-> handle',
                    live |-> conn' = "open"]]
            /\ UNCHANGED last
    /\ UNCHANGED <<phase, config, last_good, task, now, cache>>

\* awl_read_gateway(gwid) is called for request `op` in slot s: a valid entry
\* answers it; otherwise app.awl_connection.read(gwid) is awaited (app.py:177).
awl_read_gateway(s, op, gwid, zoneid) ==
    /\ phase = "serving"
    /\ inflight[s] = Idle
    /\ IF CacheValid(cache[gwid], now)
       THEN /\ Respond(op, <<gwid, zoneid>>, FALSE,
                       Render(op, zoneid, cache[gwid].value))
            /\ UNCHANGED inflight
       ELSE /\ inflight' = [inflight EXCEPT ![s] =
                   [op |-> op, gwid |-> gwid, zoneid |-> zoneid, obj |-> handle,
                    live |-> conn = "open"]]
            /\ UNCHANGED last
    /\ UNCHANGED <<phase, config, handle, conn, login_data, last_good, task,
                   now, cache>>

\* GET /gateways/<gwid>
ReadGateway(s, gwid) == awl_read_gateway(s, "read_gateway", gwid, 0)
\* GET /gateways/<gwid>/zones/<int:zoneid>/details
ReadZone(s, gwid, zoneid) == awl_read_gateway(s, "read_zone", gwid, zoneid)

\* A request path that reads again, on the installed session, when its read
\* has failed.
ReadEndsRetrying(s, payload) ==
    /\ inflight[s] # Idle
    /\ LET r == inflight[s]
           result == awl_read(r.live /\ r.obj = handle /\ conn = "open", payload)
       IN  IF Raised(result)
           THEN /\ inflight' = [inflight EXCEPT ![s] =
                       [r EXCEPT !.obj = handle, !.live = conn = "open"]]
                /\ UNCHANGED <<cache, last>>
           ELSE /\ cache' = [cache EXCEPT ![r.gwid] = CacheStore(@, result, now)]
                /\ Respond(r.op, <<r.gwid, r.zoneid>>, TRUE,
                           Render(r.op, r.zoneid, result.returned))
                /\ inflight' = [inflight EXCEPT ![s] = Idle]
    /\ UNCHANGED <<phase, config, handle, conn, login_data, last_good, task, now>>

\* The awaited read of slot s ends: its result goes through timed_cache to
\* the handler, which answers (an exception leaves the handler).
ReadEnds(s, payload) ==
    /\ inflight[s] # Idle
    /\ LET r == inflight[s]
           result == awl_read(r.live /\ r.obj = handle /\ conn = "open", payload)
       IN  /\ cache' = [cache EXCEPT ![r.gwid] = CacheStore(@, result, now)]
           /\ Respond(r.op, <<r.gwid, r.zoneid>>, TRUE,
                      IF Raised(result) THEN Unhandled(result.raised)
                      ELSE Render(r.op, r.zoneid, result.returned))
    /\ inflight' = [inflight EXCEPT ![s] = Idle]
    /\ UNCHANGED <<phase, config, handle, conn, login_data, last_good, task, now>>

\* A second passes.
Tick ==
    /\ now < MaxTime
    /\ now' = now + 1
    /\ UNCHANGED <<phase, config, handle, conn, login_data, last_good, task,
                   cache, inflight, last>>

\* ------------------------------------------------------------ specifications
Lifecycle ==
    \/ \E t \in Tasks : Attempt(t)
    \/ \E t \in Tasks, snapshot \in LoginSnapshots : ConnectSucceeds(t, snapshot)
    \/ \E t \in Tasks, exc \in {"AWLConnectionError", "AWLLoginError"} :
           ConnectFails(t, exc)
    \/ \E t \in Tasks, how \in {"returns", "AWLConnectionError"},
          outcome \in {"ok", "AWLLoginError"} : WaitClosedEnds(t, how, outcome)
    \/ UpstreamCloses
    \/ close_awl_session

Projections ==
    \/ ListThermostats
    \/ \E raw \in BOOLEAN : ListGateways(raw)
    \/ \E gwid \in GWIDS \cup {"*"} : ListGatewayZones(gwid)
    \/ \E gwid \in GWIDS, zoneid \in ZoneIds : ViewGatewayZone(gwid, zoneid)

Reads ==
    \/ \E s \in Slots, gwid \in GWIDS : ReadGateway(s, gwid)
    \/ \E s \in Slots, payload \in Payloads : ReadEnds(s, payload)

\* The session and the requests served from login_data.
Next == Lifecycle \/ Projections
Spec == Init /\ [][Next]_vars

\* The session and the gateway reads, for the production configuration; the
\* clock stands still.
ProductionConfig == BaseConfig @@ [WEBSOCKETS_WARN_AFTER_DISCONNECTED |-> 10]
InitProduction == Init /\ config = ProductionConfig
NextRead == Lifecycle \/ Reads
SpecRead == InitProduction /\ [][NextRead]_vars

\* The session and all six request paths, for the production configuration,
\* with requests for gateway g1 and its zone 1; the clock stands still.
NextAll ==
    \/ Lifecycle
    \/ ListThermostats
    \/ ListGateways(FALSE)
    \/ ListGatewayZones("g1")
    \/ ViewGatewayZone("g1", 1)
    \/ \E s \in Slots : ReadGateway(s, "g1")
    \/ \E s \in Slots : ReadZone(s, "g1", 1)
    \/ \E s \in Slots, payload \in Payloads : ReadEnds(s, payload)
SpecAll == InitProduction /\ [][NextAll]_vars

\* The cached gateway reads against the clock, from startup to the time the
\* upstream has closed the session and the supervision task has not yet run.
Snapshot1 == [locations |-> <<[description |-> Text("L1"), gateways |-> <<Gateway1>>]>>]
NextCache ==
    \/ Attempt(0)
    \/ ConnectSucceeds(0, Snapshot1)
    \/ \E exc \in {"AWLConnectionError", "AWLLoginError"} : ConnectFails(0, exc)
    \/ UpstreamCloses
    \/ Reads
    \/ Tick
SpecCache == InitProduction /\ [][NextCache]_vars

\* The state in which startup has succeeded with the given login data.
Serving(snapshot) ==
    /\ phase = "serving"
    /\ config = ProductionConfig
    /\ handle = 1
    /\ conn = "open"
    /\ login_data = snapshot
    /\ last_good = snapshot
    /\ task = [t \in Tasks |->
                  IF t = 0 THEN [NoTask EXCEPT !.pc = "done", !.tries = 1,
                                               !.outcome = "ok", !.notice = "quiet"]
                  ELSE IF t = 1 THEN [NoTask EXCEPT !.pc = "wait_closed", !.obj = 1]
                  ELSE NoTask]
    /\ now = 0
    /\ cache = [g \in GWIDS |-> Empty]
    /\ inflight = [s \in Slots |-> Idle]
    /\ last = NoResponse

\* ----------------------------------------------- enumerated login snapshots
\* Sequences over S of length at most n whose items have distinct first
\* components (the items of a dict, in order).
DictsOver(S, n) ==
    {d \in UNION {[1..k -> S] : k \in 0..n} :
        \A i, j \in 1..Len(d) : i # j => d[i][1] # d[j][1]}

\* Zone slots as the upstream may send them: "z1" and "z01" both convert to 1,
\* "zx" does not convert, "z2" has a null name, "z3" has the name "None", and
\* "z 1_0\x0b" converts to 10.
SlotItems ==
    {<< <<"z", "1">>, Text("Home") >>, << <<"z", "0", "1">>, Text("Attic") >>,
     << <<"z", "x">>, Text("Shed") >>, << <<"z", "2">>, None >>,
     << <<"z", "3">>, Text("None") >>,
     << <<"z", " ", "1", "_", "0", VT>>, Text("Loft") >>}
TstatNames == DictsOver(SlotItems, MaxSlots)
\* Gateway dicts: with gwid "g1" (and a description), with gwid "g2", with a
\* null gwid, or without gwid; with tstat_names or without.
GatewayDicts ==
    {[gwid |-> Text("g1"), description |-> Text("S1"), tstat_names |-> n] :
        n \in TstatNames}
    \cup {[gwid |-> Text("g2"), tstat_names |-> n] : n \in TstatNames}
    \cup {[gwid |-> None, tstat_names |-> n] : n \in TstatNames}
    \cup {[description |-> Text("S0"), tstat_names |-> n] : n \in TstatNames}
    \cup {[gwid |-> Text("g1"), description |-> Text("S1")],
          [gwid |-> Text("g2")], [gwid |-> None]}
\* The gateway dicts of at most one zone slot.
SmallGatewayDicts ==
    {g \in GatewayDicts : "tstat_names" \in DOMAIN g => Len(g["tstat_names"]) <= 1}
\* Login data of up to two gateways (the second of at most one zone slot), in
\* one location or in two; the second location has no description.
ZoneSnapshots ==
    {[locations |-> <<>>], [locations |-> <<[description |-> Text("L1"), gateways |-> <<>>]>>]}
    \cup {[locations |-> <<[description |-> Text("L1"), gateways |-> <<g>>]>>] :
            g \in GatewayDicts}
    \cup {[locations |-> <<[description |-> Text("L1"), gateways |-> <<g, h>>]>>] :
            g \in GatewayDicts, h \in SmallGatewayDicts}
    \cup {[locations |-> <<[description |-> Text("L1"), gateways |-> <<g>>],
                           [gateways |-> <<h>>]>>] :
            g \in GatewayDicts, h \in SmallGatewayDicts}

\* The handlers that project login_data, over the enumerated snapshots.
InitZones == \E snapshot \in ZoneSnapshots : Serving(snapshot)
SpecZones == InitZones /\ [][Projections]_vars

\* ------------------------------------------------------ enumerated payloads
Mode(zoneid) == ZonePrefix(zoneid) \o <<"m", "o", "d", "e">>
\* Items of a telemetry payload: two forms of zone 1's activesettings, zone
\* 1's fan and mode, zone 2's fan, and a key of no zone.
PayloadItems ==
    {<<ZonePrefix(1) \o ActiveSettings, << << <<"f", "a", "n">>, "auto" >> >> >>,
     <<ZonePrefix(1) \o ActiveSettings,
       << << <<"f", "a", "n">>, "auto" >>, << <<"m", "o", "d", "e">>, "heat" >> >> >>,
     <<Fan(1), "on">>,
     <<Mode(1), "cool">>,
     <<Fan(2), "low">>,
     << <<"t", "s">>, "123">>}
ZonePayloads == DictsOver(PayloadItems, MaxPayloadKeys)

\* The zone detail handler over the enumerated payloads of one gateway.
InitDetail == Serving(Snapshot1)
NextDetail ==
    \/ \E zoneid \in ZoneIds : ReadZone(1, "g1", zoneid)
    \/ \E payload \in ZonePayloads : ReadEnds(1, payload)
SpecDetail == InitDetail /\ [][NextDetail]_vars

\* ================================================================== claims
\* --------------------------------------------------------------------- C1
\* C1: once a connect has succeeded, the login data that gateway and zone
\* enumeration read through app.awl_connection is at every moment, recovery
\* included, the login data of the last successful connect.
C1_StaleSnapshotAvailable ==
    (phase = "serving" /\ last_good # None) => login_data = last_good

\* --------------------------------------------------------------------- C2
\* C2: in a supervision task, a connect attempt that failed with
\* AWLConnectionError leaves the task waiting for its next attempt.
C2_ReconnectRetried ==
    \A t \in Supervisors :
        task[t].outcome = "AWLConnectionError" => task[t].pc = "backoff"

\* --------------------------------------------------------------------- C3
\* C3: while the application serves, some task is waiting for the session to
\* close or is on its way to reconnect (sleeping, connecting, backing off).
C3_NoTerminalState ==
    phase = "serving" =>
        \E t \in Tasks : task[t].pc \in {"wait_closed", "sleep", "connect", "backoff"}

\* --------------------------------------------------------------------- C4
\* C4: when wait_closed ends for a supervision task, whatever logout() did
\* (AWLLoginError included), the task goes to its sleep(1) and nothing of the
\* session changes; and from that sleep its one next step is the first
\* attempt of a new establish_awl_session call.
C4_LogoutErrorAbsorbed ==
    [][\A t \in Tasks :
          /\ (task[t].pc = "wait_closed" /\ task'[t] # task[t]) =>
                /\ task'[t] = [task[t] EXCEPT !.pc = "sleep",
                                              !.logout = task'[t].logout]
                /\ UNCHANGED <<phase, handle, conn, login_data>>
          /\ (task[t].pc = "sleep" /\ task'[t] # task[t]) =>
                /\ task'[t].pc = "connect"
                /\ task'[t].tries = 1
                /\ task'[t].logout = task[t].logout
                /\ handle' = handle + 1
      ]_vars
\* A task whose logout() raised AWLLoginError is awaiting its reconnect.
C4_Witness ==
    \E t \in Tasks : task[t].logout = "AWLLoginError" /\ task[t].pc = "connect"

\* --------------------------------------------------------------------- C5
\* C5: on the before_serving call, AWLLoginError ends startup after one
\* attempt with no supervision task, and AWLConnectionError leaves the call
\* waiting for its next attempt.
C5_InitialConnect ==
    /\ task[0].outcome = "AWLLoginError" =>
          /\ phase = "failed"
          /\ task[0].tries = 1
          /\ Supervisors = {}
    /\ task[0].outcome = "AWLConnectionError" => task[0].pc = "backoff"

\* -------------------------------------------------------- reads, as steps
\* Slot s suspends in the upstream read of gwid g in this step.
ReadIssued(s, g) ==
    inflight[s] = Idle /\ inflight'[s] # Idle /\ inflight'[s].gwid = g
\* The upstream read of gwid g in slot s ends in this step.
ReadEnded(s, g) ==
    inflight[s] # Idle /\ inflight[s].gwid = g /\ inflight'[s] = Idle
\* A request for gwid g is answered in this step with no upstream read.
AnsweredFromCache(g) ==
    inflight' = inflight /\ last' # last /\ last'.args[1] = g
\* The read of slot s is one the upstream fails.
ReadFailing(s) ==
    ~(inflight[s].live /\ inflight[s].obj = handle /\ conn = "open")

\* --------------------------------------------------------------------- C6
\* C6: issuing a gateway read suspends one slot in one upstream read and
\* changes nothing of the session; a read issued while the session was not
\* connected ends with AWLConnectionError as the response, is not issued
\* again, stores nothing, and changes nothing of the session or its tasks.
C6_DisconnectedReadFails ==
    [][\A s \in Slots :
          /\ (inflight[s] = Idle /\ inflight'[s] # Idle) =>
                /\ \A r \in Slots \ {s} : inflight'[r] = inflight[r]
                /\ UNCHANGED <<phase, handle, conn, login_data, task, cache, last>>
          /\ (inflight[s] # Idle /\ ~inflight[s].live /\ inflight'[s] # inflight[s]) =>
                /\ inflight' = [inflight EXCEPT ![s] = Idle]
                /\ last' = [op |-> inflight[s].op,
                            args |-> <<inflight[s].gwid, inflight[s].zoneid>>,
                            upstream |-> TRUE,
                            response |-> Unhandled("AWLConnectionError")]
                /\ UNCHANGED <<phase, handle, conn, login_data, task, cache>>
      ]_vars
\* A read has failed with AWLConnectionError and the same gwid is being read
\* again, issued while the session is not connected.
C6_Witness ==
    /\ last.response = Unhandled("AWLConnectionError")
    /\ conn # "open"
    /\ \E s \in Slots :
          /\ inflight[s] # Idle
          /\ ~inflight[s].live
          /\ inflight[s].gwid = last.args[1]
          /\ cache[inflight[s].gwid] = Empty

\* --------------------------------------------------------------------- C7
\* C7: a request for gwid g is answered from the cache, with the stored value
\* and no upstream read, exactly while now < insertedAt + 10; otherwise the
\* upstream read is issued, and when it returns its payload replaces the entry
\* with insertedAt = now.  Only a read of g changes g's entry.
C7_CacheFreshness ==
    [][\A g \in GWIDS :
          LET fresh == cache[g] # Empty /\ now < cache[g].insertedAt + 10
          IN  /\ (\E s \in Slots : ReadIssued(s, g)) => ~fresh
              /\ AnsweredFromCache(g) =>
                    /\ fresh
                    /\ ~last'.upstream
                    /\ last'.response = jsonify(cache[g].value)
                    /\ cache' = cache
              /\ \A s \in Slots :
                    (ReadEnded(s, g) /\ last'.response.status = 200) =>
                        cache'[g] = [value |-> last'.response.body,
                                     insertedAt |-> now]
              /\ (\A s \in Slots : ~ReadEnded(s, g)) => cache'[g] = cache[g]
      ]_vars
\* g2 was just answered from its entry while g1's entry, ten seconds old, is
\* being read again.
C7_Witness ==
    /\ ~last.upstream
    /\ last.response.status = 200
    /\ last.args[1] = "g2"
    /\ cache["g1"] # Empty
    /\ now >= cache["g1"].insertedAt + 10
    /\ \E s \in Slots : inflight[s] # Idle /\ inflight[s].gwid = "g1"

\* --------------------------------------------------------------------- C8
\* C8: an upstream read that fails leaves every entry as it was and its
\* AWLConnectionError is the response; no entry ever holds anything but a
\* payload; and after a failed read of g, while g's entry is absent or
\* expired, no request for g is answered from the cache.
C8_FailureNotCached ==
    [][\A g \in GWIDS :
          /\ \A s \in Slots :
                (ReadEnded(s, g) /\ ReadFailing(s)) =>
                    /\ cache' = cache
                    /\ last'.upstream
                    /\ last'.response = Unhandled("AWLConnectionError")
          /\ cache'[g] # Empty => cache'[g].value \in Payloads
          /\ ( /\ last.response = Unhandled("AWLConnectionError")
               /\ last.args[1] = g
               /\ ~(cache[g] # Empty /\ now < cache[g].insertedAt + 10) )
             => ~AnsweredFromCache(g)
      ]_vars
\* A read of g1 has failed, g1's earlier entry is still stored and expired,
\* and g1 is being read from the upstream again.
C8_Witness ==
    /\ last.response = Unhandled("AWLConnectionError")
    /\ last.args[1] = "g1"
    /\ cache["g1"] # Empty
    /\ now >= cache["g1"].insertedAt + 10
    /\ \E s \in Slots : inflight[s] # Idle /\ inflight[s].gwid = "g1"

\* --------------------------------------------------------------------- C9
\* C9: view_gateway_zone answers with a zone record only when exactly one
\* enumerated record has the gwid and zoneid asked for, and then with that
\* record; with none it answers 404, with more than one 500.
C9_OneZoneOrError ==
    last.op = "view_gateway_zone" =>
        LET zones == awl_enumerate_zones(login_data)
            asked(zone) == zone.gwid = Text(last.args[1]) /\ zone.zoneid = last.args[2]
        IN  IF Raised(zones) THEN last.response.status = 500
            ELSE LET found == SelectSeq(zones.returned, asked)
                 IN  /\ Len(found) = 0 => last.response = abort(404)
                     /\ Len(found) = 1 => last.response = jsonify(found[1])
                     /\ Len(found) > 1 => last.response = abort(500)
\* Two enumerated records have the gwid and zoneid asked for, and the answer
\* is 500.
C9_Witness ==
    /\ last.op = "view_gateway_zone"
    /\ last.response = abort(500)
    /\ LET zones == awl_enumerate_zones(login_data)
           asked(zone) == zone.gwid = Text(last.args[1]) /\ zone.zoneid = last.args[2]
       IN  Returned(zones) /\ Len(SelectSeq(zones.returned, asked)) > 1

\* -------------------------------------------------------------------- C10
\* C10: the zone detail holds every entry of iz2_z{z}_activesettings under
\* its own key with its own value, and every other iz2_z{z}_ key under its
\* stripped name, with its value unless activesettings has an entry of that
\* name (activesettings wins).
C10_ActiveSettingsWin ==
    (last.op = "read_zone" /\ last.response.status = 200) =>
        LET payload == cache[last.args[1]].value
            prefix == ZonePrefix(last.args[2])
            active == IF HasKey(payload, prefix \o ActiveSettings)
                      THEN Lookup(payload, prefix \o ActiveSettings) ELSE <<>>
            detail == last.response.body
        IN  /\ \A i \in 1..Len(active) :
                  /\ HasKey(detail, active[i][1])
                  /\ Lookup(detail, active[i][1]) = active[i][2]
            /\ \A i \in 1..Len(payload) :
                  (StartsWith(payload[i][1], prefix)
                   /\ payload[i][1] # prefix \o ActiveSettings) =>
                      LET k == SubSeq(payload[i][1], Len(prefix) + 1, Len(payload[i][1]))
                      IN  /\ HasKey(detail, k)
                          /\ ~HasKey(active, k) => Lookup(detail, k) = payload[i][2]

\* ------------------------------------------------- login data, by position
\* The positions <<location, gateway>> of the gateways of login data.
GatewaysOf(data) ==
    UNION {{<<l, g>> : g \in 1..Len(data.locations[l].gateways)} :
              l \in 1..Len(data.locations)}
\* The positions <<location, gateway, slot>> of the zone slots of login data.
ZoneSlotsOf(data) ==
    UNION {{<<p[1], p[2], s>> :
               s \in 1..Len(data.locations[p[1]].gateways[p[2]].tstat_names)} :
              p \in {q \in GatewaysOf(data) :
                        "tstat_names" \in DOMAIN data.locations[q[1]].gateways[q[2]]}}
\* Snapshot order of two positions: locations, then gateways, then slots.
Before(a, b) ==
    \E k \in 1..Len(a) : a[k] < b[k] /\ \A j \in 1..(k - 1) : a[j] = b[j]

\* -------------------------------------------------------------------- C11
\* C11: whatever the shape of the login data (a gateway without gwid, without
\* tstat_names, or with a slot key that is no integer), zone enumeration does
\* not raise: GET /zones answers 200.
C11_ShapeNeverFailsZones ==
    last.op = "list_thermostats" => last.response.status = 200

\* -------------------------------------------------------------------- C12
\* C12: the records of GET /zones come, in snapshot order, from distinct zone
\* slots of the login data; each comes from a slot whose name is not null and
\* whose gateway has a gwid, and carries that gwid, which is not null, that
\* name and the integer that the slot key's suffix converts to.
C12_ZoneRecordsFromSlots ==
    (last.op = "list_thermostats" /\ last.response.status = 200) =>
        LET zones == last.response.body
        IN  \E from \in [1..Len(zones) -> ZoneSlotsOf(login_data)] :
                /\ \A i, j \in 1..Len(zones) : i < j => Before(from[i], from[j])
                /\ \A i \in 1..Len(zones) :
                      LET gateway == login_data.locations[from[i][1]].gateways[from[i][2]]
                          slot == gateway.tstat_names[from[i][3]]
                      IN  /\ slot[2] # None
                          /\ "gwid" \in DOMAIN gateway
                          /\ zones[i].gwid = gateway.gwid
                          /\ zones[i].gwid # None
                          /\ zones[i].zone_name = slot[2]
                          /\ int(SubSeq(slot[1], 2, Len(slot[1])))
                                 = Return(zones[i].zoneid)

\* -------------------------------------------------------------------- C13
\* C13: GET /gateways answers 200 with exactly one record per gateway that has
\* a gwid, in snapshot order, each carrying its gateway's gwid; gateways
\* without gwid are left out and nothing after them is lost.
C13_GatewayRecords ==
    (last.op = "list_gateways" /\ last.args = <<FALSE>>) =>
        /\ last.response.status = 200
        /\ LET gateways == last.response.body
               withGwid == {p \in GatewaysOf(login_data) :
                               "gwid" \in DOMAIN login_data.locations[p[1]].gateways[p[2]]}
           IN  /\ Len(gateways) = Cardinality(withGwid)
               /\ \E from \in [1..Len(gateways) -> withGwid] :
                     /\ \A i, j \in 1..Len(gateways) :
                           i < j => Before(from[i], from[j])
                     /\ \A i \in 1..Len(gateways) :
                           LET location == login_data.locations[from[i][1]]
                               gateway == location.gateways[from[i][2]]
                           IN  gateways[i] =
                                   [location |-> Get(location, "description"),
                                    gwid |-> gateway.gwid,
                                    system_name |-> Get(gateway, "description")]
\* GET /gateways answered with a record of a gateway that comes after a
\* gateway without gwid in the same location.
C13_Witness ==
    /\ last.op = "list_gateways"
    /\ last.args = <<FALSE>>
    /\ Len(last.response.body) = 1
    /\ Len(login_data.locations) >= 1
    /\ Len(login_data.locations[1].gateways) = 2
    /\ "gwid" \notin DOMAIN login_data.locations[1].gateways[1]
    /\ "gwid" \in DOMAIN login_data.locations[1].gateways[2]

\* -------------------------------------------------------------------- C14
\* C14: once close_awl_session has closed the session, no connect attempt is
\* begun (no AWL object is installed, no task enters connect()) and no
\* supervision task is created.
C14_ShutdownStopsSupervision ==
    [][phase = "stopped" =>
          /\ handle' = handle
          /\ Supervisors' = Supervisors
          /\ \A t \in Tasks : task'[t].pc = "connect" => task[t].pc = "connect"
      ]_vars

\* -------------------------------------------------------------------- C15
\* C15: a supervision task that is past wait_closed (in the fixed delay, in
\* connect() or between retries) has attempted the logout, however
\* wait_closed ended.
C15_LogoutBeforeReconnect ==
    \A t \in Supervisors :
        task[t].pc \in {"sleep", "connect", "backoff"} =>
            task[t].logout \in {"ok", "AWLLoginError"}

\* -------------------------------------------------------------------- C16
\* C16: no two requests are suspended in upstream reads of the same gwid at
\* the same time: while a miss's read is pending, no other request for that
\* gwid reaches the upstream.
C16_OneReadPerWindow ==
    \A s, r \in Slots :
        (s # r /\ inflight[s] # Idle /\ inflight[r] # Idle) =>
            inflight[s].gwid # inflight[r].gwid

\* -------------------------------------------------------------------- C17
\* C17: the n-th consecutive AWLConnectionError of an establish_awl_session
\* call is followed by a wait before the n-th retry, and that wait is the
\* base delay for n = 1 and twice the previous wait after it (up to the cap,
\* of which the decorator at app.py:155-158 sets none: no max_value).
C17_WaitDoubles ==
    \A t \in Tasks :
        task[t].outcome = "AWLConnectionError" =>
            /\ task[t].pc = "backoff"
            /\ expo(1) = 1
            /\ task[t].tries > 1 => expo(task[t].tries) = 2 * expo(task[t].tries - 1)

\* -------------------------------------------------------------------- C18
\* C18: an AWLConnectionError of connect() never ends the task that called
\* establish_awl_session (the on-backoff notification does not abort the
\* retry loop), and the notification is critical exactly when the elapsed
\* time exceeds WEBSOCKETS_WARN_AFTER_DISCONNECTED; a successful connect is
\* followed by the recovery message exactly when it took more than one try.
C18_NotificationNeverAborts ==
    \A t \in Tasks :
        /\ task[t].outcome = "AWLConnectionError" =>
              /\ task[t].exc = ""
              /\ task[t].pc = "backoff"
              /\ task[t].notice =
                     (IF task[t].elapsed > config.WEBSOCKETS_WARN_AFTER_DISCONNECTED
                      THEN "critical" ELSE "quiet")
        /\ task[t].outcome = "ok" =>
              task[t].notice = (IF task[t].tries > 1 THEN "warning" ELSE "quiet")

\* -------------------------------------------------------------------- C19
\* C19: a step of a request path (one that answers a request or changes a
\* pending read) leaves the session handle, its connectivity and its login
\* data as they were; and once startup is over, a step that installs a handle,
\* changes the login data or brings the connectivity to anything but closed
\* is a step of a supervision task.
C19_SingleWriter ==
    [][/\ (last' # last \/ inflight' # inflight) =>
              UNCHANGED <<handle, conn, login_data>>
       /\ ( /\ phase \in {"serving", "stopped"}
            /\ \/ handle' # handle
               \/ login_data' # login_data
               \/ (conn' # conn /\ conn' # "closed") )
          => \E t \in Supervisors : task'[t] # task[t]
      ]_vars
\* A zone detail was answered from an upstream read and another read is
\* pending, both on the session that a supervision task re-established.
C19_Witness ==
    /\ handle = 2
    /\ conn = "open"
    /\ task[1].pc = "done"
    /\ last.op = "read_zone"
    /\ last.upstream
    /\ last.response.status = 200
    /\ \E s \in Slots : inflight[s] # Idle /\ inflight[s].obj = 2

\* -------------------------------------------------------------------- C20
\* C20: at most one supervision task is suspended in wait_closed, and it
\* waits on the AWL object that is installed; the connect() of a task that
\* succeeds creates exactly one supervision task, and no other step (a
\* connect() that fails among them) creates any.
C20_SingleSupervisor ==
    /\ [](/\ Cardinality({t \in Tasks : task[t].pc = "wait_closed"}) <= 1
          /\ \A t \in Tasks : task[t].pc = "wait_closed" =>
                 (t \in Supervisors /\ task[t].obj = handle))
    /\ [][LET succeeded == {t \in Tasks : task[t].pc = "connect"
                                          /\ task'[t].outcome = "ok"}
              created == Supervisors' \ Supervisors
          IN  /\ Supervisors \subseteq Supervisors'
              /\ Cardinality(created) = Cardinality(succeeded)
              /\ Cardinality(created) <= 1
              /\ \A t \in created :
                    task'[t].pc = "wait_closed" /\ task'[t].obj = handle'
         ]_vars
\* The second supervision task waits on the second AWL object, installed and
\* connected by the first supervision task, which has ended.
C20_Witness ==
    /\ handle = 2
    /\ conn = "open"
    /\ task[1].pc = "done"
    /\ task[2].pc = "wait_closed"
    /\ task[2].obj = 2

=============================================================================
